---- MODULE Spec2Model ----
(***************************************************************************)
(* A model of iata-rs' BCBP (bar coded boarding pass) decoder and builder, *)
(* src/src/bcbp.rs.  Text is a sequence of characters; a character is a    *)
(* one-letter string for ASCII and a "U+XXXX" token for a non-ASCII code   *)
(* point.  Rust's str::len, split_at and String::truncate count UTF-8      *)
(* bytes while nom's take!/anychar count characters; the model keeps both  *)
(* measures apart (Utf8Len, ByteLen, CharsInBytes).                        *)
(***************************************************************************)
EXTENDS Integers, Sequences, FiniteSets, TLC

VARIABLES src, text, pc, legs_count, i, cursor, bcbp, result, reads, built, again

vars == <<src, text, pc, legs_count, i, cursor, bcbp, result, reads, built, again>>

(***************************************************************************)
(* Characters                                                              *)
(***************************************************************************)
AsciiUpper ==
  <<"A","B","C","D","E","F","G","H","I","J","K","L","M",
    "N","O","P","Q","R","S","T","U","V","W","X","Y","Z">>

AsciiLower ==
  <<"a","b","c","d","e","f","g","h","i","j","k","l","m",
    "n","o","p","q","r","s","t","u","v","w","x","y","z">>

DecDigits == <<"0","1","2","3","4","5","6","7","8","9">>

IndexOf(c, s) ==
  IF \E k \in 1..Len(s) : s[k] = c
  THEN CHOOSE k \in 1..Len(s) : s[k] = c
  ELSE 0

\* Unicode scalar value of a character of the model's alphabet.
CodePoint(c) ==
  IF IndexOf(c, DecDigits) > 0 THEN 47 + IndexOf(c, DecDigits)
  ELSE IF IndexOf(c, AsciiUpper) > 0 THEN 64 + IndexOf(c, AsciiUpper)
  ELSE IF IndexOf(c, AsciiLower) > 0 THEN 96 + IndexOf(c, AsciiLower)
  ELSE CASE c = " " -> 32
         [] c = "*" -> 42
         [] c = "+" -> 43
         [] c = "-" -> 45
         [] c = "/" -> 47
         [] c = "<" -> 60
         [] c = ">" -> 62
         [] c = "U+00A9" -> 169    \* copyright sign
         [] c = "U+00C9" -> 201    \* E with acute, upper case
         [] c = "U+00DF" -> 223    \* sharp s, upper-cases to "SS"
         [] c = "U+00E9" -> 233    \* e with acute, lower case
         [] c = "U+4E31" -> 20017  \* a CJK ideograph, low byte 0x31

\* Length of the character's UTF-8 encoding: what str::len counts.
Utf8Len(c) ==
  LET cp == CodePoint(c)
  IN  IF cp < 128 THEN 1 ELSE IF cp < 2048 THEN 2 ELSE IF cp < 65536 THEN 3 ELSE 4

\* char::to_uppercase: one character may become several.
CharToUpper(c) ==
  IF IndexOf(c, AsciiLower) > 0 THEN <<AsciiUpper[IndexOf(c, AsciiLower)]>>
  ELSE CASE c = "U+00E9" -> <<"U+00C9">>
         [] c = "U+00DF" -> <<"S", "S">>
         [] OTHER -> <<c>>

\* char::is_alphabetic, as nom's alpha applies it to each character.
IsAlpha(c) ==
  \/ IndexOf(c, AsciiUpper) > 0
  \/ IndexOf(c, AsciiLower) > 0
  \/ c \in {"U+00C9", "U+00DF", "U+00E9", "U+4E31"}

\* char::is_whitespace, as str::trim applies it.
IsSpace(c) == c = " "

\* char::to_digit(radix): -1 when c is no digit of the radix.
DigitVal(c, radix) ==
  LET d == IF IndexOf(c, DecDigits) > 0 THEN IndexOf(c, DecDigits) - 1
           ELSE IF IndexOf(c, AsciiUpper) > 0 THEN 9 + IndexOf(c, AsciiUpper)
           ELSE IF IndexOf(c, AsciiLower) > 0 THEN 9 + IndexOf(c, AsciiLower)
           ELSE -1
  IN  IF d >= 0 /\ d < radix THEN d ELSE -1

\* The characters of the model, and the per-character tables the string
\* operations look up.
Alphabet ==
  {AsciiUpper[k] : k \in 1..26} \cup {AsciiLower[k] : k \in 1..26}
    \cup {DecDigits[k] : k \in 1..10}
    \cup {" ", "*", "+", "-", "/", "<", ">",
          "U+00A9", "U+00C9", "U+00DF", "U+00E9", "U+4E31"}

Utf8 == [c \in Alphabet |-> Utf8Len(c)]

Upper == [c \in Alphabet |-> CharToUpper(c)]

Alphabetic == {c \in Alphabet : IsAlpha(c)}

(***************************************************************************)
(* Strings                                                                 *)
(***************************************************************************)
None == <<>>

Some(x) == <<x>>

\* str::to_uppercase of characters lo..hi of s.
RECURSIVE UpperRange(_, _, _)
UpperRange(s, lo, hi) ==
  IF lo > hi THEN <<>>
  ELSE IF lo = hi THEN Upper[s[lo]]
  ELSE UpperRange(s, lo, (lo + hi) \div 2) \o UpperRange(s, ((lo + hi) \div 2) + 1, hi)

to_uppercase(s) == UpperRange(s, 1, Len(s))

\* str::len: the length in bytes.
\* The bytes of characters lo..hi of s.
RECURSIVE BytesRange(_, _, _)
BytesRange(s, lo, hi) ==
  IF lo > hi THEN 0
  ELSE IF lo = hi THEN Utf8[s[lo]]
  ELSE BytesRange(s, lo, (lo + hi) \div 2) + BytesRange(s, ((lo + hi) \div 2) + 1, hi)

ByteLen(s) == BytesRange(s, 1, Len(s))

\* The number of leading characters of s that make up exactly n bytes, or -1
\* when byte offset n is past the end of s or inside a character
\* (str::split_at and String::truncate panic there).
\* The search keeps: the first lo characters of s are `bytes` <= n bytes.
RECURSIVE BytesWalk(_, _, _, _, _)
BytesWalk(s, n, lo, hi, bytes) ==
  IF bytes = n THEN lo
  ELSE IF lo >= hi THEN -1
  ELSE IF bytes + BytesRange(s, lo + 1, (lo + hi + 1) \div 2) <= n
  THEN BytesWalk(s, n, (lo + hi + 1) \div 2, hi,
                 bytes + BytesRange(s, lo + 1, (lo + hi + 1) \div 2))
  ELSE BytesWalk(s, n, lo, ((lo + hi + 1) \div 2) - 1, bytes)

CharsInBytes(s, n) == BytesWalk(s, n, 0, IF Len(s) < n THEN Len(s) ELSE n, 0)

Take(s, n) == SubSeq(s, 1, n)

Drop(s, n) == SubSeq(s, n + 1, Len(s))

RECURSIVE trim_left(_)
trim_left(s) == IF s # <<>> /\ IsSpace(Head(s)) THEN trim_left(Tail(s)) ELSE s

RECURSIVE trim_right(_)
trim_right(s) ==
  IF s # <<>> /\ IsSpace(s[Len(s)]) THEN trim_right(Take(s, Len(s) - 1)) ELSE s

trim(s) == trim_right(trim_left(s))

RECURSIVE trim_left_matches(_, _)
trim_left_matches(s, c) ==
  IF s # <<>> /\ Head(s) = c THEN trim_left_matches(Tail(s), c) ELSE s

RECURSIVE Repeat(_, _)
Repeat(c, n) == IF n <= 0 THEN <<>> ELSE <<c>> \o Repeat(c, n - 1)

\* format!("{:<w}", s): the width counts characters and never truncates.
PadRight(s, w) == s \o Repeat(" ", w - Len(s))

\* format!("{:f>w}", s)
PadLeft(s, w, f) == Repeat(f, w - Len(s)) \o s

RECURSIVE DigitsValue(_, _, _)
DigitsValue(s, radix, acc) ==
  IF s = <<>> THEN acc
  ELSE IF DigitVal(Head(s), radix) < 0 THEN -1
  ELSE DigitsValue(Tail(s), radix, acc * radix + DigitVal(Head(s), radix))

\* u32::from_str_radix / usize::from_str_radix: an optional '+', then at
\* least one digit of the radix; -1 stands for Err.  Fields are at most five
\* characters wide, so no value overflows.
from_str_radix(s, radix) ==
  LET digits == IF s # <<>> /\ Head(s) = "+" THEN Tail(s) ELSE s
  IN  IF digits = <<>> THEN -1 ELSE DigitsValue(digits, radix, 0)

RECURSIVE NatToStr(_)
NatToStr(n) ==
  IF n < 10 THEN <<DecDigits[n + 1]>>
  ELSE NatToStr(n \div 10) \o <<DecDigits[(n % 10) + 1]>>

u32_from_str_force(s, radix) ==
  LET v == from_str_radix(trim_left_matches(trim(s), "0"), radix)
  IN  IF v >= 0 THEN v ELSE 0

(***************************************************************************)
(* The record types                                                        *)
(***************************************************************************)
\* BCBP::new
NewBCBP ==
  [ticket_flag |-> " ", name_first |-> <<>>, name_last |-> <<>>,
   segments |-> <<>>, conditional_version |-> None, conditional_data |-> None,
   pax_type |-> None, doc_type |-> None, checkin_src |-> None,
   boardingpass_src |-> None, boardingpass_day |-> None,
   boardingpass_airline |-> None, security_data_type |-> None,
   security_data |-> None]

(***************************************************************************)
(* The nom parsers.  Each returns [kind |-> "Done" | "Error" |             *)
(* "Incomplete", ...]; take!(n) and anychar count characters and are       *)
(* Incomplete when the input is too short.                                 *)
(***************************************************************************)
HeaderLen == 23

NameLen == 20

SegmentLen == 37

MinDataLen == 60

\* bcbp_main without the check of the format code.
bcbp_main_unmarked(s) ==
  IF Len(s) < HeaderLen THEN [kind |-> "Incomplete"]
  ELSE [kind |-> "Done", rest |-> Drop(s, HeaderLen), segments |-> s[2],
        name |-> SubSeq(s, 3, 2 + NameLen), ticket_flag |-> s[HeaderLen]]

bcbp_main(s) ==
  IF s = <<>> THEN [kind |-> "Incomplete"]
  ELSE IF s[1] # "M" THEN [kind |-> "Error", custom |-> 1]
  ELSE IF Len(s) < HeaderLen THEN [kind |-> "Incomplete"]
  ELSE [kind |-> "Done", rest |-> Drop(s, HeaderLen), segments |-> s[2],
        name |-> SubSeq(s, 3, 2 + NameLen), ticket_flag |-> s[HeaderLen]]

\* The length of the leading alphabetic run of s.
RECURSIVE AlphaRun(_)
AlphaRun(s) ==
  IF s # <<>> /\ Head(s) \in Alphabetic THEN 1 + AlphaRun(Tail(s)) ELSE 0

\* bcbp_name taking the padding after a last name without '/' as consumed.
bcbp_name_padded(s) ==
  IF s = <<>> THEN [kind |-> "Incomplete"]
  ELSE IF AlphaRun(s) = 0 THEN [kind |-> "Error"]
  ELSE LET after == Drop(s, AlphaRun(s))
       IN  IF after # <<>> /\ Head(after) = "/"
           THEN [kind |-> "Done", rest |-> <<>>, last |-> Take(s, AlphaRun(s)),
                 first |-> Some(Tail(after))]
           ELSE [kind |-> "Done", rest |-> trim(after), last |-> Take(s, AlphaRun(s)),
                 first |-> None]

bcbp_name(s) ==
  IF s = <<>> THEN [kind |-> "Incomplete"]
  ELSE IF AlphaRun(s) = 0 THEN [kind |-> "Error"]
  ELSE LET after == Drop(s, AlphaRun(s))
       IN  IF after # <<>> /\ Head(after) = "/"
           THEN [kind |-> "Done", rest |-> <<>>, last |-> Take(s, AlphaRun(s)),
                 first |-> Some(Tail(after))]
           ELSE [kind |-> "Done", rest |-> after, last |-> Take(s, AlphaRun(s)),
                 first |-> None]

bcbp_segment(s) ==
  IF Len(s) < SegmentLen THEN [kind |-> "Incomplete"]
  ELSE [kind |-> "Done", rest |-> Drop(s, SegmentLen),
        segment |->
          [pnr |-> trim(SubSeq(s, 1, 7)),
           src_airport |-> trim(SubSeq(s, 8, 10)),
           dst_airport |-> trim(SubSeq(s, 11, 13)),
           airline |-> trim(SubSeq(s, 14, 16)),
           flight_code |-> trim(SubSeq(s, 17, 21)),
           flight_day |-> u32_from_str_force(SubSeq(s, 22, 24), 10),
           compartment |-> s[25],
           seat |-> trim_left_matches(trim(SubSeq(s, 26, 29)), "0"),
           sequence |-> u32_from_str_force(SubSeq(s, 30, 34), 10),
           pax_status |-> trim(SubSeq(s, 35, 35))],
        size_ext |-> SubSeq(s, 36, 37)]

\* opt!(complete!(anychar)) at offset at of s: the value and the new offset.
OptChar(s, at) ==
  IF at < Len(s) THEN [val |-> Some(s[at + 1]), at |-> at + 1]
  ELSE [val |-> None, at |-> at]

\* opt!(complete!(take!(n))) at offset at of s.
OptTake(s, at, n) ==
  IF at + n <= Len(s) THEN [val |-> Some(SubSeq(s, at + 1, at + n)), at |-> at + n]
  ELSE [val |-> None, at |-> at]

bcbp_ext_uniq(s) ==
  IF s = <<>> THEN [kind |-> "Incomplete"]
  ELSE IF s[1] \notin {">", "<"} THEN [kind |-> "Error", custom |-> 2001]
  ELSE IF Len(s) < 4 THEN [kind |-> "Incomplete"]
  ELSE LET pax_type == OptChar(s, 4)
           checkin_src == OptChar(s, pax_type.at)
           boardingpass_src == OptChar(s, checkin_src.at)
           boardingpass_day == OptTake(s, boardingpass_src.at, 4)
           doc_type == OptChar(s, boardingpass_day.at)
           boardingpass_airline == OptTake(s, doc_type.at, 3)
           tags == OptTake(s, boardingpass_airline.at, 13)
       IN  [kind |-> "Done", rest |-> Drop(s, tags.at), ver |-> s[2],
            size |-> SubSeq(s, 3, 4), pax_type |-> pax_type.val,
            checkin_src |-> checkin_src.val,
            boardingpass_src |-> boardingpass_src.val,
            boardingpass_day |-> boardingpass_day.val,
            doc_type |-> doc_type.val,
            boardingpass_airline |-> boardingpass_airline.val,
            tags |-> tags.val]

\* Only the size is used by the caller; the optional subfields that follow
\* it cannot fail and are dropped.
bcbp_ext_seg(s) ==
  IF Len(s) < 2 THEN [kind |-> "Incomplete"]
  ELSE [kind |-> "Done", size |-> Take(s, 2)]

(***************************************************************************)
(* BCBP::from, in the steps of its control flow.  A step returns           *)
(* [result |-> "none", ...] to go on, or the Error variant returned.       *)
(* "Panic" is a Rust panic: an unwrap of Err, a split_at or truncate off a *)
(* character boundary or past the end, an arithmetic overflow in a build   *)
(* with overflow checks.                                                   *)
(***************************************************************************)
\* `c as i8`: the code point narrowed to its low 8 bits, read as signed.
AsI8(c) ==
  LET lo == CodePoint(c) % 256
  IN  IF lo >= 128 THEN lo - 256 ELSE lo

\* `parts.0 as i8 - '0' as i8` in i8.  The subtraction overflows below -128:
\* a panic with overflow checks (checked), a wrap-around without.
LegsCount(c, checked) ==
  LET d == AsI8(c) - AsI8("0")
  IN  IF d >= -128 THEN [panic |-> FALSE, value |-> d]
      ELSE IF checked THEN [panic |-> TRUE, value |-> 0]
      ELSE [panic |-> FALSE, value |-> d + 256]

Fail(e, b) == [result |-> e, bcbp |-> b]

\* Lines 228-258: upper-casing, the length check, the header, the leg count
\* and the name.
FromEnter(s, checked) ==
  LET up == to_uppercase(s)
      main == bcbp_main(up)
      none == [result |-> "none", text |-> up, legs_count |-> 0,
               cursor |-> 0, bcbp |-> NewBCBP]
  IN  IF ByteLen(up) < MinDataLen THEN [none EXCEPT !.result = "DataLength"]
      ELSE IF main.kind = "Error"
      THEN [none EXCEPT !.result = IF main.custom = 1 THEN "FormatCode" ELSE "Format"]
      ELSE IF main.kind = "Incomplete" THEN [none EXCEPT !.result = "DataLength"]
      ELSE LET lc == LegsCount(main.segments, checked)
               name == bcbp_name(main.name)
           IN  IF lc.panic THEN [none EXCEPT !.result = "Panic"]
               ELSE IF lc.value < 1 \/ lc.value > 9
               THEN [none EXCEPT !.result = "SegmentsCount"]
               ELSE IF name.kind # "Done" \/ name.rest # <<>>
               THEN [none EXCEPT !.result = "Name", !.legs_count = lc.value,
                                 !.bcbp = [NewBCBP EXCEPT !.ticket_flag = main.ticket_flag]]
               ELSE [none EXCEPT
                       !.legs_count = lc.value,
                       !.cursor = HeaderLen,
                       !.bcbp = [NewBCBP EXCEPT
                                   !.ticket_flag = main.ticket_flag,
                                   !.name_last = name.last,
                                   !.name_first =
                                     trim(IF name.first = None THEN <<>> ELSE name.first[1])]]

\* Lines 316-332: the segment extension of a leg's conditional block.
ExtSeg(chunk, b) ==
  LET seg == bcbp_ext_seg(chunk)
      sz == from_str_radix(seg.size, 16)
  IN  IF seg.kind # "Done" THEN Fail("CoditionalData", b)
      ELSE IF sz < 0 THEN Fail("Panic", b)
      ELSE IF sz > ByteLen(chunk) THEN Fail("CoditionalDataSize", b)
      ELSE IF CharsInBytes(chunk, sz + 2) < 0 THEN Fail("Panic", b)
      ELSE Fail("none", b)

\* Lines 279-314: the unique sub-block of the first leg's conditional block,
\* then the segment extension in what follows it.
ExtUniq(chunk, b) ==
  LET o == bcbp_ext_uniq(chunk)
      sz == from_str_radix(o.size, 16)
      k == CharsInBytes(chunk, sz + 4)
  IN  IF o.kind # "Done" THEN Fail("CoditionalData", b)
      ELSE IF sz < 0 THEN Fail("Panic", b)
      ELSE IF sz > ByteLen(chunk) THEN Fail("CoditionalDataSize", b)
      ELSE IF k < 0 THEN Fail("Panic", b)
      ELSE ExtSeg(Drop(chunk, k),
                  [b EXCEPT !.conditional_version = Some(o.ver),
                            !.conditional_data = Some(Take(chunk, k)),
                            !.pax_type = o.pax_type,
                            !.checkin_src = o.checkin_src,
                            !.boardingpass_src = o.boardingpass_src,
                            !.doc_type = o.doc_type])

\* Lines 261-340: one iteration of the loop over the legs, for leg index n
\* with next_segment the text from character offset at.  read is the
\* conditional size read with the mandatory block (-1: no block was read or
\* the size did not parse).
FromLeg(t, at, n, b) ==
  LET seg == bcbp_segment(Drop(t, at))
      sz == from_str_radix(seg.size_ext, 16)
      k == CharsInBytes(seg.rest, sz)
      pushed == [b EXCEPT !.segments = Append(@, seg.segment)]
      stay == [result |-> "none", bcbp |-> b, cursor |-> at, read |-> -1]
  IN  IF seg.kind = "Incomplete" THEN [stay EXCEPT !.result = "DataLength"]
      ELSE IF seg.kind = "Error" THEN stay
      ELSE IF sz < 0 THEN [stay EXCEPT !.result = "Panic"]
      ELSE IF sz > ByteLen(seg.rest)
      THEN [stay EXCEPT !.result = "CoditionalDataSize", !.read = sz]
      ELSE IF k < 0 THEN [stay EXCEPT !.result = "Panic", !.read = sz]
      ELSE LET ext == IF sz = 0 THEN Fail("none", pushed)
                      ELSE IF n = 0 THEN ExtUniq(Take(seg.rest, k), pushed)
                      ELSE ExtSeg(Take(seg.rest, k), pushed)
           IN  [result |-> ext.result, bcbp |-> ext.bcbp,
                cursor |-> at + SegmentLen + k, read |-> sz]

\* The loop of lines 260-341 run to its end, and the return of line 354.
RECURSIVE FromLoop(_, _, _, _, _)
FromLoop(t, at, n, count, b) ==
  IF n >= count THEN Fail("Ok", b)
  ELSE LET step == FromLeg(t, at, n, b)
       IN  IF step.result # "none" THEN Fail(step.result, step.bcbp)
           ELSE FromLoop(t, step.cursor, n + 1, count, step.bcbp)

\* BCBP::from as a function of its argument.
From(s, checked) ==
  LET head == FromEnter(s, checked)
  IN  IF head.result # "none" THEN Fail(head.result, head.bcbp)
      ELSE FromLoop(head.text, head.cursor, 0, head.legs_count, head.bcbp)

(***************************************************************************)
(* The builder                                                             *)
(***************************************************************************)
\* BCBP::name: "last/first" cut to 20 bytes; <<"Panic">> when byte 20 is
\* inside a character.
name(b) ==
  LET tmp == b.name_last \o <<"/">> \o b.name_first
      k == CharsInBytes(tmp, NameLen)
  IN  IF ByteLen(tmp) <= NameLen THEN tmp
      ELSE IF k < 0 THEN <<"Panic">>
      ELSE Take(tmp, k)

segments_count(b) == IF Len(b.segments) > 9 THEN 9 ELSE Len(b.segments)

flight_day_aligned(s) ==
  IF s.flight_day = 0 THEN <<>> ELSE PadLeft(NatToStr(s.flight_day), 3, "0")

\* seat_aligned without the zero padding.
seat_aligned_unpadded(s) == s.seat

seat_aligned(s) == IF Len(s.seat) = 0 THEN <<>> ELSE PadLeft(s.seat, 4, "0")

sequence_aligned(s) ==
  IF s.sequence = 0 THEN <<>> ELSE PadLeft(NatToStr(s.sequence), 4, "0")

\* The format! of lines 211-222 for one segment.
BuildSegment(s) ==
  PadRight(s.pnr, 7) \o PadRight(s.src_airport, 3) \o PadRight(s.dst_airport, 3)
    \o PadRight(s.airline, 3) \o PadRight(s.flight_code, 5)
    \o PadRight(flight_day_aligned(s), 3) \o <<s.compartment>>
    \o PadLeft(seat_aligned(s), 4, " ") \o PadRight(sequence_aligned(s), 5)
    \o PadRight(s.pax_status, 1) \o <<"0", "0">>

RECURSIVE BuildSegments(_)
BuildSegments(segs) ==
  IF segs = <<>> THEN <<>> ELSE BuildSegment(Head(segs)) \o BuildSegments(Tail(segs))

\* BCBP::build: [result |-> "Ok", text |-> the string], or a panic.
build(b) ==
  IF name(b) = <<"Panic">> THEN [result |-> "Panic", text |-> <<>>]
  ELSE [result |-> "Ok",
        text |-> <<"M">> \o NatToStr(segments_count(b)) \o PadRight(name(b), NameLen)
                   \o <<b.ticket_flag>> \o BuildSegments(b.segments)]

(***************************************************************************)
(* The inputs                                                              *)
(***************************************************************************)
\* The bounds of the input set: the mandatory leg blocks an input holds, and
\* the characters cut off its end.
MaxBlocks == 9

MaxCut == 2

StdName == PadRight(<<"J","O","H","N","/","S","M","I","T","H"," ","J","O","R","D","A","N">>, NameLen)

\* Name fields that bcbp_name accepts, name fields it rejects, and name
\* fields with characters of more than one byte (the last is 19 characters
\* that upper-case to 20).
GoodNames ==
  {<<"J","O","H","N","/","S","M","I","T","H"," ","J","O","R","D","A","N"," "," "," ">>,
    <<"V","E","R","Y","L","O","N","G","E","S","T","L","A","S","T","N","A","M","E","D">>,
    <<"J","O","H","N","/"," "," "," "," "," "," "," "," "," "," "," "," "," "," "," ">>,
    <<"J","O","H","N","/"," "," ","S","M","I","T","H"," "," "," "," "," "," "," "," ">>,
    <<"A","/","B","/","C"," "," "," "," "," "," "," "," "," "," "," "," "," "," "," ">>,
    <<"A","B","C","D","E","F","G","H","I","J","K","L","M","N","O","P","Q","R","S","/">>,
    <<"j","o","h","n","/","s","m","i","t","h"," "," "," "," "," "," "," "," "," "," ">>}

BadNames ==
  {<<"S","M","I","T","H"," "," "," "," "," "," "," "," "," "," "," "," "," "," "," ">>,
    <<"/","S","M","I","T","H"," "," "," "," "," "," "," "," "," "," "," "," "," "," ">>,
    <<"J","O","H","N"," ","/","S","M","I","T","H"," "," "," "," "," "," "," "," "," ">>,
    <<"D","E"," ","L","A"," ","C","R","U","Z","/","J","U","A","N"," "," "," "," "," ">>,
    <<"O","-","N","E","I","L","/","J","O","H","N"," "," "," "," "," "," "," "," "," ">>}

WideNames ==
  {<<"A","/","U+00C9","U+00C9","U+00C9","U+00C9","U+00C9","U+00C9","U+00C9","U+00C9","U+00C9","U+00C9","U+00C9","U+00C9","U+00C9","U+00C9","U+00C9","U+00C9","U+00C9","U+00C9">>,
    <<"A","B","/","U+00C9","U+00C9","U+00C9","U+00C9","U+00C9","U+00C9","U+00C9","U+00C9","U+00C9","U+00C9","U+00C9","U+00C9","U+00C9","U+00C9","U+00C9","U+00C9","U+00C9">>,
    <<"S","T","R","A","U","U+00DF","/","E","V","A"," "," "," "," "," "," "," "," "," ">>}

FirstChars == {"M", "m", "X", "1", "U+00C9"}

SecondChars ==
  {"0", "1", "2", "3", "4", "5", "6", "7", "8", "9", "A", "a", "/", " ",
   "U+4E31", "U+00A9", "U+00C9"}

\* Flight day (3), seat (4) and sequence (5) fields.
Days ==
  {<<"0","0","1">>,
    <<"3","6","5">>,
    <<"9","9","9">>,
    <<" "," "," ">>,
    <<"0","0","0">>,
    <<"+","1","2">>,
    <<"0","+","1">>,
    <<"1","A","2">>,
    <<" ","7"," ">>,
    <<"7"," "," ">>,
    <<"-","1","2">>}

Seats ==
  {<<"0","0","1","Z">>,
    <<"1","2","3","A">>,
    <<" "," "," "," ">>,
    <<"0","0","0","0">>,
    <<"0"," ","1","A">>,
    <<"0","1","A"," ">>,
    <<"0","0","0","A">>,
    <<" ","1","2","A">>}

Sequences ==
  {<<"0","0","0","7"," ">>,
    <<"0","1","2","3"," ">>,
    <<" "," "," "," "," ">>,
    <<"0","0","0","0","0">>,
    <<"0","0","0","0"," ">>,
    <<"1","2","3","4","5">>,
    <<"0","0","1","2","A">>,
    <<"+","0","0","3","4">>,
    <<" ","0","0","0","7">>,
    <<"7"," "," "," "," ">>}

\* A leg's mandatory block without its conditional size (35 characters): leg
\* k of the base itinerary, with the fields that v gives replacing the base's
\* (v.x = <<>>: the base's).
Or(v, base) == IF v = <<>> THEN base ELSE v

LegFields(k, v) ==
  Or(v.pnr, PadRight(<<"P", "N", "R", DecDigits[(k % 10) + 1]>>, 7))
    \o <<"J", "F", "K">> \o <<"S", "V", "O">>
    \o Or(v.airline, <<"S", "U", " ">>)
    \o PadRight(<<"1", "2", DecDigits[(k % 10) + 1]>>, 5)
    \o Or(v.day, PadLeft(NatToStr(200 + k), 3, "0"))
    \o Or(v.comp, <<"Y">>)
    \o Or(v.seat, <<"0", "1", DecDigits[(k % 10) + 1], "A">>)
    \o Or(v.seq, <<"0", "0", "5", DecDigits[(k % 10) + 1], " ">>)
    \o Or(v.status, <<"0">>)

Base == [pnr |-> <<>>, airline |-> <<>>, day |-> <<>>, comp |-> <<>>,
         seat |-> <<>>, seq |-> <<>>, status |-> <<>>]

LegVariants ==
  {Base}
    \cup {[Base EXCEPT !.day = d] : d \in Days}
    \cup {[Base EXCEPT !.seat = d] : d \in Seats}
    \cup {[Base EXCEPT !.seq = d] : d \in Sequences}
    \cup {[Base EXCEPT !.pnr = d] : d \in {<<"A","B","C","D","E","F","G">>, <<" ","A","B","C"," "," "," ">>, <<"A","B"," ","C","D"," "," ">>}}
    \cup {[Base EXCEPT !.airline = d] : d \in {<<" ","S","U">>, <<" "," "," ">>}}
    \cup {[Base EXCEPT !.comp = d] : d \in {<<" ">>, <<"0">>}}
    \cup {[Base EXCEPT !.status = d] : d \in {<<" ">>, <<"A">>}}

\* A leg's conditional size field and the characters that follow its
\* mandatory block.
NoCond == [size |-> <<"0","0">>, data |-> <<>>]

\* A well-formed conditional block of the first leg (unique sub-block, then
\* segment extension) and of a later leg (segment extension only).
UniqCond == [size |-> <<"0","B">>, data |-> <<">","5","0","3","A","B","C","0","2","X","Y">>]

SegCond == [size |-> <<"0","4">>, data |-> <<"0","2","X","Y">>]

Conds ==
  {[size |-> <<"0","0">>, data |-> <<>>],
   [size |-> <<"+","0">>, data |-> <<>>],
   [size |-> <<" "," ">>, data |-> <<>>],
   [size |-> <<"0","G">>, data |-> <<>>],
   [size |-> <<"F","F">>, data |-> <<>>],
   [size |-> <<"0","1">>, data |-> <<>>],
   [size |-> <<"0","B">>, data |-> <<">","5","0","3","A","B","C","0","2","X","Y">>],
   [size |-> <<"0","4">>, data |-> <<"0","2","X","Y">>],
   [size |-> <<"0","6">>, data |-> <<">","5","0","0","0","0">>],
   [size |-> <<"1","0">>, data |-> <<">","5","0","A","A","B","C","1","2","3","4","D","S","U","0","0">>],
   [size |-> <<"0","A">>, data |-> <<"<","5","0","2","A","B","0","1","0","0">>],
   [size |-> <<"0","4">>, data |-> <<">","5","F","F">>],
   [size |-> <<"0","6">>, data |-> <<">","5","0","4","A","B">>],
   [size |-> <<"0","6">>, data |-> <<">","5","0","2","A","B">>],
   [size |-> <<"0","3">>, data |-> <<"0","3","X">>],
   [size |-> <<"0","4">>, data |-> <<">","5"," "," ">>],
   [size |-> <<"0","2">>, data |-> <<"0","0">>],
   [size |-> <<"0","2">>, data |-> <<"0","G">>],
   [size |-> <<"0","4">>, data |-> <<"0","0","U+00C9">>],
   [size |-> <<"0","2">>, data |-> <<"U+00C9">>],
   [size |-> <<"0","1">>, data |-> <<"U+00C9">>],
   [size |-> <<"0","8">>, data |-> <<">","5","0","0","0","0","U+00C9">>]}

\* The default conditional block of leg k when the other legs carry one.
OtherCond(k, oc) == IF ~oc THEN NoCond ELSE IF k = 1 THEN UniqCond ELSE SegCond

\* Legs k..n of an input: leg j has fields v and conditional block c, the
\* others are the base itinerary's.
RECURSIVE Legs(_, _, _, _, _, _)
Legs(k, n, j, v, c, oc) ==
  IF k > n THEN <<>>
  ELSE LET cd == IF k = j THEN c ELSE OtherCond(k, oc)
       IN  LegFields(k, IF k = j THEN v ELSE Base) \o cd.size \o cd.data
             \o Legs(k + 1, n, j, v, c, oc)

Mk(first, second, nm, n, j, v, c, oc, cut) ==
  LET whole == <<first, second>> \o nm \o <<"E">> \o Legs(1, n, j, v, c, oc)
  IN  Take(whole, IF Len(whole) > cut THEN Len(whole) - cut ELSE 0)

Digit(n) == DecDigits[(IF n > 9 THEN 9 ELSE n) + 1]

LongName ==
  <<"V","E","R","Y","L","O","N","G","E","S","T","L","A","S","T","N","A","M","E","D">>

\* Every first and second character, over one or two base legs.
HeaderInputs ==
  {Mk(f, s, StdName, n, 0, Base, NoCond, FALSE, cut) :
     f \in FirstChars, s \in SecondChars, n \in 1..2, cut \in 0..MaxCut}

\* Every name field, under every first character.
NameInputs ==
  {Mk(f, "1", nm, 1, 0, Base, NoCond, FALSE, cut) :
     f \in FirstChars, nm \in GoodNames \cup BadNames \cup WideNames,
     cut \in 0..MaxCut}

\* Every declared leg count over every number of blocks present, whole or cut.
CountInputs ==
  {Mk("M", Digit(d), StdName, n, 0, Base, NoCond, oc, cut) :
     d \in 1..9, n \in 0..MaxBlocks, oc \in BOOLEAN, cut \in 0..MaxCut}

\* The itineraries whose legs are varied one at a time: <<n, j>> is leg j of
\* n legs, the first, a middle or the last one.
Itineraries ==
  {<<n, j>> \in {1, 2, MaxBlocks} \X {1, 2, MaxBlocks} : j <= n}

\* Every variant of a mandatory field, on every leg of the itineraries.
FieldInputs ==
  {Mk("M", Digit(it[1]), nm, it[1], it[2], v, NoCond, FALSE, 0) :
     it \in Itineraries, v \in LegVariants, nm \in {StdName, LongName}}

\* Every conditional block, on every leg of the itineraries.
CondInputs ==
  {Mk("M", Digit(it[1]), StdName, it[1], it[2], Base, c, oc, 0) :
     it \in Itineraries, c \in Conds, oc \in BOOLEAN}

Inputs ==
  {<<>>} \cup HeaderInputs \cup NameInputs \cup CountInputs \cup FieldInputs
    \cup CondInputs

(***************************************************************************)
(* The state machine: a caller decodes src with BCBP::from, the decoder    *)
(* runs its loop leg by leg, and the caller builds the record it got and   *)
(* decodes the built string again.                                         *)
(***************************************************************************)
Init ==
  /\ src \in Inputs
  /\ text = <<>>
  /\ pc = "from"
  /\ legs_count = 0
  /\ i = 0
  /\ cursor = 0
  /\ bcbp = NewBCBP
  /\ result = "none"
  /\ reads = <<>>
  /\ built = None
  /\ again = None

\* BCBP::from up to the loop over the legs; either overflow-check setting of
\* the build.
Enter ==
  /\ pc = "from"
  /\ \E checked \in BOOLEAN :
       \E head \in {FromEnter(src, checked)} :
           /\ text' = head.text
           /\ legs_count' = head.legs_count
           /\ cursor' = head.cursor
           /\ bcbp' = head.bcbp
           /\ result' = head.result
           /\ pc' = IF head.result = "none" THEN "legs" ELSE "returned"
  /\ UNCHANGED <<src, i, reads, built, again>>

\* One iteration of `for i in 0 .. legs_count`.
Leg ==
  /\ pc = "legs"
  /\ i < legs_count
  /\ \E step \in {FromLeg(text, cursor, i, bcbp)} :
         /\ reads' = Append(reads, [at |-> cursor, size |-> step.read])
         /\ bcbp' = step.bcbp
         /\ cursor' = step.cursor
         /\ result' = step.result
         /\ i' = IF step.result = "none" THEN i + 1 ELSE i
         /\ pc' = IF step.result = "none" THEN "legs" ELSE "returned"
  /\ UNCHANGED <<src, text, legs_count, built, again>>

\* The loop is over: Ok(bcbp).
Return ==
  /\ pc = "legs"
  /\ i >= legs_count
  /\ result' = "Ok"
  /\ pc' = "returned"
  /\ UNCHANGED <<src, text, legs_count, i, cursor, bcbp, reads, built, again>>

\* The caller builds the record it was returned.
Build ==
  /\ pc = "returned"
  /\ result = "Ok"
  /\ built' = Some(build(bcbp))
  /\ pc' = "built"
  /\ UNCHANGED <<src, text, legs_count, i, cursor, bcbp, result, reads, again>>

\* The caller decodes the built string.
Redecode ==
  /\ pc = "built"
  /\ built[1].result = "Ok"
  /\ \E checked \in BOOLEAN : again' = Some(From(built[1].text, checked))
  /\ pc' = "redecoded"
  /\ UNCHANGED <<src, text, legs_count, i, cursor, bcbp, result, reads, built>>

Next == Enter \/ Leg \/ Return \/ Build \/ Redecode

Spec == Init /\ [][Next]_vars

(***************************************************************************)
(* Vocabulary of the properties                                            *)
(***************************************************************************)
Returned == pc \notin {"from", "legs"}

LegDigits == {DecDigits[k] : k \in 2..10}

IsAscii(s) == \A k \in 1..Len(s) : Utf8[s[k]] = 1

\* The characters of the text that remain at the start of the k-th block read
\* and after its 37 characters.
RemainingAt(k) == Len(text) - reads[k].at

RemainingAfter(k) == Len(text) - reads[k].at - SegmentLen

\* The conditional size field read with the k-th block.
SizeField(k) == SubSeq(text, reads[k].at + 36, reads[k].at + 37)

\* The mandatory fields of a record.
Mandatory(b) ==
  [name_last |-> b.name_last, name_first |-> b.name_first,
   ticket_flag |-> b.ticket_flag, segments |-> b.segments]

\* Every block read so far declared no conditional data.
NoConditionalData == \A k \in 1..Len(reads) : reads[k].size = 0

(***************************************************************************)
(* C1: whenever BCBP::from returns Ok, the second character of the input   *)
(* is a digit 1..9 and the record holds exactly that many segments.        *)
(* Refuted through C7's defect: a non-ASCII second character whose low     *)
(* byte is 0x31..0x39 is taken as a leg count.                             *)
(***************************************************************************)
C1_SegmentsMatchDeclaredDigit ==
  (Returned /\ result = "Ok") =>
    /\ src[2] \in LegDigits
    /\ Len(bcbp.segments) = IndexOf(src[2], DecDigits) - 1

\* What does hold: the loop pushes one segment per iteration, so a returned
\* record holds legs_count segments, and legs_count is in 1..9.
LoopPushesLegsCount ==
  /\ (result \in {"none", "Ok"}) => Len(bcbp.segments) = i
  /\ (Returned /\ result = "Ok") =>
       (Len(bcbp.segments) = legs_count /\ legs_count \in 1..9)

C1_OnAscii == IsAscii(src) => C1_SegmentsMatchDeclaredDigit

(***************************************************************************)
(* C2: on every leg, a conditional size larger than the number of          *)
(* characters that remain after the mandatory block ends the decode with   *)
(* Err(CoditionalDataSize).  Refuted: the code compares the size with the  *)
(* remaining length in bytes.                                              *)
(***************************************************************************)
C2_OversizeIsCoditionalDataSize ==
  \A k \in 1..Len(reads) :
    (RemainingAt(k) >= SegmentLen /\ reads[k].size > RemainingAfter(k))
      => result = "CoditionalDataSize"

C2_OnAscii == IsAscii(text) => C2_OversizeIsCoditionalDataSize

(***************************************************************************)
(* C3: a record decoded from an input without conditional data is built    *)
(* into a string that decodes to a record with the same mandatory fields.  *)
(* Refuted: BCBP::name cuts "last/first" at 20 bytes, not 20 characters.   *)
(***************************************************************************)
C3_ModelRoundTrip ==
  (pc \in {"built", "redecoded"} /\ NoConditionalData) =>
    /\ built[1].result = "Ok"
    /\ pc = "redecoded" =>
         /\ again[1].result = "Ok"
         /\ Mandatory(again[1].bcbp) = Mandatory(bcbp)

C3_OnAscii == IsAscii(text) => C3_ModelRoundTrip

(***************************************************************************)
(* The canonical mandatory-only layout of C4                               *)
(***************************************************************************)
Letters == {AsciiUpper[k] : k \in 1..26}

Digits == {DecDigits[k] : k \in 1..10}

Blank(f) == \A k \in 1..Len(f) : f[k] = " "

\* Left-aligned and space-padded to the field's width.
LeftAligned(f) == f = PadRight(trim(f), Len(f))

\* Decimal digits, not all of them zero.
NonzeroNumber(f) ==
  /\ \A k \in 1..Len(f) : f[k] \in Digits
  /\ \E k \in 1..Len(f) : f[k] # "0"

\* LAST/FIRST space-padded to 20, or a last name of 20 letters.
CanonicalName(f) ==
  \/ \A k \in 1..NameLen : f[k] \in Letters
  \/ \E p \in 2..NameLen :
       /\ f[p] = "/"
       /\ \A k \in 1..(p - 1) : f[k] \in Letters
       /\ LeftAligned(SubSeq(f, p + 1, NameLen))

\* A seat zero-padded to 4 (no space before or after it), or blank.
CanonicalSeat(f) == Blank(f) \/ (f[1] # " " /\ f[4] # " ")

\* The seat as the amended claim has it: not all zeros.
NonzeroSeat(f) == Blank(f) \/ (CanonicalSeat(f) /\ \E k \in 1..4 : f[k] # "0")

\* The 37 characters of a mandatory block in the canonical layout, but for
\* the seat.
CanonicalBlock(b) ==
  /\ LeftAligned(SubSeq(b, 1, 7))
  /\ LeftAligned(SubSeq(b, 8, 10))
  /\ LeftAligned(SubSeq(b, 11, 13))
  /\ LeftAligned(SubSeq(b, 14, 16))
  /\ LeftAligned(SubSeq(b, 17, 21))
  /\ (Blank(SubSeq(b, 22, 24)) \/ NonzeroNumber(SubSeq(b, 22, 24)))
  /\ (Blank(SubSeq(b, 30, 34))
        \/ (NonzeroNumber(SubSeq(b, 30, 33)) /\ b[34] = " "))
  /\ SubSeq(b, 36, 37) = <<"0", "0">>

BlockOf(s, k) == SubSeq(s, HeaderLen + SegmentLen * (k - 1) + 1, HeaderLen + SegmentLen * k)

SeatOf(s, k) == SubSeq(BlockOf(s, k), 26, 29)

\* s is an upper-case ASCII string of 23 + 37n characters in the canonical
\* layout, n its declared leg count, every seat satisfying Seat.
Canonical(s, Seat(_)) ==
  /\ Len(s) >= HeaderLen
  /\ IsAscii(s)
  /\ s = to_uppercase(s)
  /\ s[1] = "M"
  /\ s[2] \in LegDigits
  /\ Len(s) = HeaderLen + SegmentLen * (IndexOf(s[2], DecDigits) - 1)
  /\ CanonicalName(SubSeq(s, 3, 2 + NameLen))
  /\ \A k \in 1..(IndexOf(s[2], DecDigits) - 1) :
       CanonicalBlock(BlockOf(s, k)) /\ Seat(SeatOf(s, k))

BuildsBack ==
  /\ Returned => result = "Ok"
  /\ pc \in {"built", "redecoded"} => built[1] = [result |-> "Ok", text |-> src]

C5_NotMIsFormatCode ==
  (Returned /\ text # <<>> /\ text[1] # "M") => result = "FormatCode"

(***************************************************************************)
(* C5, amended: an input that upper-cases to at least 60 bytes and whose   *)
(* first character, upper-cased, is not 'M' is Err(FormatCode).            *)
(***************************************************************************)
C5_LongNotMIsFormatCode ==
  (Returned /\ ByteLen(text) >= MinDataLen /\ text[1] # "M")
    => result = "FormatCode"

C5_Witness ==
  /\ Returned
  /\ ByteLen(text) >= MinDataLen
  /\ text[1] = "X"
  /\ result = "FormatCode"

(***************************************************************************)
(* C6: an input shorter than 60 characters, or one with a valid header in  *)
(* which a declared leg's mandatory block is read with fewer than 37       *)
(* characters remaining, is Err(DataLength).  Refuted: the length check    *)
(* counts the bytes of the upper-cased input, not its characters.          *)
(***************************************************************************)
ShortLeg == \E k \in 1..Len(reads) : RemainingAt(k) < SegmentLen

C6_ShortIsDataLength ==
  (Returned /\ (Len(src) < MinDataLen \/ ShortLeg)) => result = "DataLength"

C6_OnAscii == IsAscii(src) => C6_ShortIsDataLength

(***************************************************************************)
(* C7: an input of at least 60 characters that starts with 'M' and whose   *)
(* second character is not one of '1'..'9' is Err(SegmentsCount).  Refuted:*)
(* the character is narrowed to i8 before '0' is subtracted.               *)
(***************************************************************************)
C7_NonDigitIsSegmentsCount ==
  (pc # "from" /\ Len(src) >= MinDataLen /\ src[1] = "M" /\ src[2] \notin LegDigits)
    => result = "SegmentsCount"

C7_OnAscii == IsAscii(src) => C7_NonDigitIsSegmentsCount

(***************************************************************************)
(* The name field, for C8                                                  *)
(***************************************************************************)
\* The input has the header up to the name: at least 60 bytes and 23
\* characters upper-cased, 'M', a leg digit.
HeaderToName ==
  /\ pc # "from"
  /\ ByteLen(text) >= MinDataLen
  /\ Len(text) >= HeaderLen
  /\ text[1] = "M"
  /\ text[2] \in LegDigits

NameField == SubSeq(text, 3, 2 + NameLen)

HasSlash(f) == \E p \in 1..Len(f) : f[p] = "/"

SlashAt(f) == CHOOSE p \in 1..Len(f) : f[p] = "/" /\ \A q \in 1..(p - 1) : f[q] # "/"

AllAlphabetic(f) == \A k \in 1..Len(f) : f[k] \in Alphabetic

\* The field is LAST/FIRST: a nonempty alphabetic LAST up to the first '/'.
LastSlashFirst(f) ==
  HasSlash(f) /\ SlashAt(f) > 1 /\ AllAlphabetic(SubSeq(f, 1, SlashAt(f) - 1))

NameSplitAtSlash ==
  (HeaderToName /\ LastSlashFirst(NameField)) =>
    /\ result # "Name"
    /\ bcbp.name_last = SubSeq(NameField, 1, SlashAt(NameField) - 1)
    /\ bcbp.name_first = trim(SubSeq(NameField, SlashAt(NameField) + 1, NameLen))

(***************************************************************************)
(* C8, as stated: a LAST/FIRST name field splits at the first '/', and a   *)
(* name field without '/' decodes to last name = the field trimmed, first  *)
(* name empty.  Refuted: a field without '/' that is not 20 letters, such  *)
(* as a space-padded last name, is Err(Name).                              *)
(***************************************************************************)
C8_NameSplitting ==
  /\ NameSplitAtSlash
  /\ (HeaderToName /\ ~HasSlash(NameField)) =>
       /\ result # "Name"
       /\ bcbp.name_last = trim(NameField)
       /\ bcbp.name_first = <<>>

(***************************************************************************)
(* C8, amended: a LAST/FIRST name field (LAST a nonempty run of letters)   *)
(* splits at the first '/', first name trimmed; a name field without '/'   *)
(* decodes, to last name = the field and first name empty, only when all   *)
(* its 20 characters are letters; every other name field is Err(Name).     *)
(***************************************************************************)
C8_NameSplittingLettersOnly ==
  /\ NameSplitAtSlash
  /\ (HeaderToName /\ ~HasSlash(NameField) /\ AllAlphabetic(NameField)) =>
       /\ result # "Name"
       /\ bcbp.name_last = NameField
       /\ bcbp.name_first = <<>>
  /\ (HeaderToName /\ ~LastSlashFirst(NameField) /\ ~AllAlphabetic(NameField)) =>
       result = "Name"

\* A space-padded last name without '/' has been rejected.
C8_Witness ==
  /\ HeaderToName
  /\ ~HasSlash(NameField)
  /\ NameField[1] \in Alphabetic
  /\ NameField[NameLen] = " "
  /\ result = "Name"

(***************************************************************************)
(* C9: a numeric field that is blank, all zeros or holds a character that  *)
(* is no digit of its base is taken as 0 and never ends the decode; for a  *)
(* conditional size field the leg then has no conditional data.  Refuted:  *)
(* the size is parsed with from_str_radix(..).unwrap(), which panics.      *)
(***************************************************************************)
C9_NumericFieldsDefaultToZero ==
  \A k \in 1..Len(reads) :
    (RemainingAt(k) >= SegmentLen /\ u32_from_str_force(SizeField(k), 16) = 0) =>
      /\ reads[k].size = 0
      /\ k = Len(reads) => result \in {"none", "Ok"}

\* What does hold: a leg with its 37 characters and the size "00" passes,
\* whatever its flight day, seat and sequence fields hold.
MandatoryFieldsNeverFail ==
  \A k \in 1..Len(reads) :
    (RemainingAt(k) >= SegmentLen /\ SizeField(k) = <<"0", "0">>) =>
      /\ reads[k].size = 0
      /\ k = Len(reads) => result \in {"none", "Ok"}

(***************************************************************************)
(* C10: the first block is read at offset 23, and each next block exactly  *)
(* 37 + size characters after the start of the one before, size that       *)
(* block's conditional size.  Refuted: the conditional block is split off  *)
(* at a byte offset, so it holds fewer characters than its size when some  *)
(* of them are wider than a byte.                                          *)
(***************************************************************************)
C10_CursorProgression ==
  /\ Len(reads) > 0 => reads[1].at = HeaderLen
  /\ \A k \in 1..(Len(reads) - 1) :
       reads[k + 1].at = reads[k].at + SegmentLen + reads[k].size

C10_OnAscii == IsAscii(text) => C10_CursorProgression

(***************************************************************************)
(* The conditional block of a leg and the buffers split inside it          *)
(***************************************************************************)
\* Where the conditional block of the k-th block read ends: the start of
\* the next block read, or the cursor for the last one.
BlockEnd(k) == IF k < Len(reads) THEN reads[k + 1].at ELSE cursor

\* The k-th block read had a conditional block split off after it.
HasCondBlock(k) ==
  reads[k].size > 0 /\ BlockEnd(k) >= reads[k].at + SegmentLen

\* The conditional block of the k-th block read (`first` of line 269).
CondBlock(k) == SubSeq(text, reads[k].at + SegmentLen + 1, BlockEnd(k))

\* The block opens a unique sub-block: marker, version and a size of two
\* hexadecimal digits.
HasUniqHeader(chunk) ==
  /\ Len(chunk) >= 4
  /\ chunk[1] \in {">", "<"}
  /\ from_str_radix(SubSeq(chunk, 3, 4), 16) >= 0

InnerSize(chunk) == from_str_radix(SubSeq(chunk, 3, 4), 16)

\* The segment extension starts with a size of two hexadecimal digits.
HasSegHeader(buf) == Len(buf) >= 2 /\ from_str_radix(Take(buf, 2), 16) >= 0

SegSize(buf) == from_str_radix(Take(buf, 2), 16)

\* The k-th block read is the one the decode ended on, with Error e.
EndedOn(k, e) == k = Len(reads) /\ result = e

(***************************************************************************)
(* C11: every split is at a position within the buffer split; an inner     *)
(* size that puts the split of the unique sub-block (size + 4) or of the   *)
(* segment extension (size + 2) past the end of the leg's conditional      *)
(* block is Err(CoditionalDataSize).  Refuted: the code checks             *)
(* sz > chunk.len() and then splits at sz + 4, or at sz + 2, so a size     *)
(* within 4 (or 2) of the block's length slices out of range and panics.   *)
(***************************************************************************)
C11_SplitsInRange ==
  \A k \in 1..Len(reads) :
    HasCondBlock(k) =>
      /\ (k = 1 /\ HasUniqHeader(CondBlock(k))
            /\ InnerSize(CondBlock(k)) + 4 > Len(CondBlock(k)))
           => EndedOn(k, "CoditionalDataSize")
      /\ (k > 1 /\ HasSegHeader(CondBlock(k))
            /\ SegSize(CondBlock(k)) + 2 > Len(CondBlock(k)))
           => EndedOn(k, "CoditionalDataSize")
      /\ (k = 1 /\ HasUniqHeader(CondBlock(k))
            /\ InnerSize(CondBlock(k)) + 4 <= Len(CondBlock(k))
            /\ HasSegHeader(Drop(CondBlock(k), InnerSize(CondBlock(k)) + 4))
            /\ SegSize(Drop(CondBlock(k), InnerSize(CondBlock(k)) + 4)) + 2
                 > Len(CondBlock(k)) - (InnerSize(CondBlock(k)) + 4))
           => EndedOn(k, "CoditionalDataSize")

\* What does hold on ASCII text: an inner size larger than the whole buffer
\* it is read from is Err(CoditionalDataSize).
InnerSizeAboveBufferIsRejected ==
  IsAscii(text) =>
    \A k \in 1..Len(reads) :
      HasCondBlock(k) =>
        /\ (k = 1 /\ HasUniqHeader(CondBlock(k))
              /\ InnerSize(CondBlock(k)) > Len(CondBlock(k)))
             => EndedOn(k, "CoditionalDataSize")
        /\ (k > 1 /\ HasSegHeader(CondBlock(k))
              /\ SegSize(CondBlock(k)) > Len(CondBlock(k)))
             => EndedOn(k, "CoditionalDataSize")

\* The out-of-range split: a size within the buffer whose split position is
\* past its end ends the decode in a panic.
SplitPastEndPanics ==
  \E k \in 1..Len(reads) :
    /\ HasCondBlock(k)
    /\ IsAscii(text)
    /\ \/ k = 1 /\ HasUniqHeader(CondBlock(k))
            /\ InnerSize(CondBlock(k)) <= Len(CondBlock(k))
            /\ InnerSize(CondBlock(k)) + 4 > Len(CondBlock(k))
       \/ k > 1 /\ HasSegHeader(CondBlock(k))
            /\ SegSize(CondBlock(k)) <= Len(CondBlock(k))
            /\ SegSize(CondBlock(k)) + 2 > Len(CondBlock(k))
    /\ EndedOn(k, "Panic")

(***************************************************************************)
(* The unique sub-block of the first leg, for C12                          *)
(***************************************************************************)
\* The first leg has been decoded with a conditional block.
FirstLegHasUniq == i >= 1 /\ Len(reads) >= 1 /\ HasCondBlock(1)

\* The characters of the unique sub-block: inner size + 4.
UniqBlock == Take(CondBlock(1), InnerSize(CondBlock(1)) + 4)

\* The character at position p of the buffer, absent past its end.
CharAt(buf, p) == IF p <= Len(buf) THEN Some(buf[p]) ELSE None

\* The positions of the optional subfields the record keeps: passenger
\* type, check-in source, boarding-pass source, and the document type after
\* the 4 characters of the boarding-pass day.
PaxTypeAt == 5

CheckinSrcAt == 6

BoardingpassSrcAt == 7

DocTypeAt == 12

(***************************************************************************)
(* C12: the optional subfields of the first leg's unique sub-block are     *)
(* taken from inside its inner size + 4 characters only, a subfield at or  *)
(* beyond that bound being absent, and conditional_data is those           *)
(* characters.  Refuted: bcbp_ext_uniq reads the subfields from the leg's  *)
(* whole conditional block, so with a small inner size they are taken from *)
(* the segment extension that follows the unique sub-block.                *)
(***************************************************************************)
C12_UniqFieldsWithinInnerSize ==
  FirstLegHasUniq =>
    /\ bcbp.pax_type = CharAt(UniqBlock, PaxTypeAt)
    /\ bcbp.checkin_src = CharAt(UniqBlock, CheckinSrcAt)
    /\ bcbp.boardingpass_src = CharAt(UniqBlock, BoardingpassSrcAt)
    /\ bcbp.doc_type = CharAt(UniqBlock, DocTypeAt)
    /\ bcbp.conditional_data = Some(UniqBlock)

\* What does hold on ASCII text: conditional_data is the inner size + 4
\* characters, and the first three subfields are the characters at their
\* positions in the leg's whole conditional block.
UniqFieldsFromWholeBlock ==
  (FirstLegHasUniq /\ IsAscii(text)) =>
    /\ bcbp.conditional_data = Some(UniqBlock)
    /\ bcbp.pax_type = CharAt(CondBlock(1), PaxTypeAt)
    /\ bcbp.checkin_src = CharAt(CondBlock(1), CheckinSrcAt)
    /\ bcbp.boardingpass_src = CharAt(CondBlock(1), BoardingpassSrcAt)

\* A subfield has been stored from beyond the unique sub-block.
FieldFromBeyondUniqBlock ==
  /\ FirstLegHasUniq
  /\ IsAscii(text)
  /\ result = "Ok"
  /\ Len(UniqBlock) < PaxTypeAt
  /\ bcbp.pax_type # None

====
